---- MODULE Spec2Model ----
(***************************************************************************)
(* Model of libs/vertexai/langchain_google_vertexai/functions_utils.py:    *)
(* the allOf-flattener, the parameter filter, the function-description     *)
(* builders, the tool-bundle builder and the function-call result parser.  *)
(*                                                                         *)
(* The module is stateless; a behaviour of the model is one call: its      *)
(* arguments, the values of the locals that the properties speak about,    *)
(* and its outcome (a returned value or a raised exception).               *)
(***************************************************************************)
EXTENDS Integers, Sequences, FiniteSets, TLC

VARIABLES
    pc,         \* "call" before the body of the function runs, "done" after
    op,         \* the function called
    schema,     \* the schema argument of _replace_all_ofs / _get_parameters_from_schema
    deref,      \* local `schema` after line 133 (dereference_refs)
    flat,       \* local `schema` after line 135 (the value handed to the filter)
    handed,     \* TRUE iff line 136 was reached (the filter was handed `flat`)
    out,        \* the returned schema
    tools,      \* the tool inputs: the argument list of _format_tools_to_vertex_tool,
                \* or the one argument of a single-input builder
    funcs,      \* the function descriptions built: function_declarations of line 59,
                \* or the one description a single-input builder returned
    bundle,     \* the returned list of VertexTool
    result,     \* the argument of parse_result
    selector,   \* self.pydantic_schema
    resolved,   \* local `schema` of parse_result (lines 195 / 197), "" while unbound
    ret,        \* the returned model instance
    text,       \* the argument of parse
    exc,        \* the exception classes the call can end with ({} = it returned)
    excAbout    \* what the message of the exception of line 72 / line 200 embeds

vars == <<pc, op, schema, deref, flat, handed, out, tools, funcs, bundle,
          result, selector, resolved, ret, text, exc, excAbout>>

(***************************************************************************)
(* JSON-like values.  Every value is a record of the same shape so that    *)
(* any two values can be compared: t is the Python type ("s" str, "n" any  *)
(* other scalar, "m" dict, "l" list), s the scalar's text, m the dict as a *)
(* function from keys to values, l the list as a sequence.                 *)
(***************************************************************************)
EmptyDict == [k \in {} |-> 0]

Str(s) == [t |-> "s", s |-> s, m |-> EmptyDict, l |-> <<>>]

Num(s) == [t |-> "n", s |-> s, m |-> EmptyDict, l |-> <<>>]

Map(f) == [t |-> "m", s |-> "", m |-> f, l |-> <<>>]

List(q) == [t |-> "l", s |-> "", m |-> EmptyDict, l |-> q]

\* dict.get(k, default)
Get(d, k, default) == IF k \in DOMAIN d THEN d[k] ELSE default

\* d[k] = v on a dict
Put(d, k, v) == [x \in DOMAIN d \cup {k} |-> IF x = k THEN v ELSE d[x]]

Min(S) == CHOOSE i \in S : \A j \in S : i <= j

\* The outcome of a call: the value returned, or the exception classes it can
\* raise.  A dict is modelled without its insertion order, so when several
\* keys of one dict raise, any of their exceptions can be the one raised.
Return(v) == [exc |-> {}, v |-> v]

Raise(classes) == [exc |-> classes, v |-> EmptyDict]

(***************************************************************************)
(* _replace_all_ofs, lines 97-119.                                         *)
(***************************************************************************)
\* dict(x) for an x that need not be a dict: a copy of a dict, {} for an empty
\* list or string, and an error for everything else of the model, where no
\* member of a list is a pair (a 2-key dict, a 2-member list, a 2-character
\* string): ValueError for a member of another length, TypeError for a
\* member or an x that is no sequence at all.
DictOf(x) ==
    IF x.t = "m" THEN Return(x.m)
    ELSE IF x.t = "l" /\ x.l = <<>> THEN Return(EmptyDict)
    ELSE IF x.t = "s" /\ x.s = "" THEN Return(EmptyDict)
    ELSE IF x.t = "n" THEN Raise({"TypeError"})
    ELSE IF x.t = "l" /\ x.l[1].t = "n" THEN Raise({"TypeError"})
    ELSE Raise({"ValueError"})

\* " ".join((a, b)), line 105: both operands must be str.
Join(a, b) ==
    IF a.t = "s" /\ b.t = "s" THEN Return(Str(a.s \o " " \o b.s))
    ELSE Raise({"TypeError"})

\* MergeSingleton with the precedence of the two titles exchanged
MergeSingletonInnerTitleFirst(v) ==
    LET copy == DictOf(v["allOf"].l[1]) IN
    IF copy.exc # {} THEN Raise(copy.exc)
    ELSE LET obj == copy.v
             titled == Put(obj, "title", Get(obj, "title", Get(v, "title", Str(""))))
             joined == Join(Get(v, "description", Str("")),
                            Get(titled, "description", Str("")))
         IN IF joined.exc # {} THEN Raise(joined.exc)
            ELSE Return(Map(Put(titled, "description", joined.v)))

\* lines 103-108: the value stored for a key whose value v holds a singleton allOf
MergeSingleton(v) ==
    LET copy == DictOf(v["allOf"].l[1]) IN
    IF copy.exc # {} THEN Raise(copy.exc)
    ELSE LET obj == copy.v
             titled == Put(obj, "title", Get(v, "title", Get(obj, "title", Str(""))))
             joined == Join(Get(v, "description", Str("")),
                            Get(titled, "description", Str("")))
         IN IF joined.exc # {} THEN Raise(joined.exc)
            ELSE Return(Map(Put(titled, "description", joined.v)))

\* line 101: isinstance(v, dict) and "allOf" in v
HoldsAllOf(v) == v.t = "m" /\ "allOf" \in DOMAIN v.m

\* line 102: isinstance(a, list) and len(a) == 1
IsSingletonList(a) == a.t = "l" /\ Len(a.l) = 1

\* IsListOfDicts without the look at the first member
IsListOfAnything(v) == v.t = "l" /\ v.l # <<>>

\* line 115: isinstance(v, list) and v and isinstance(v[0], dict)
IsListOfDicts(v) == v.t = "l" /\ v.l # <<>> /\ v.l[1].t = "m"

RECURSIVE _replace_all_ofs(_)
_replace_all_ofs(s) ==
    LET \* line 116: [_replace_all_ofs(e) for e in v]; e.items() fails on a non-dict
        each(v) == [i \in 1..Len(v.l) |->
                       IF v.l[i].t = "m"
                       THEN LET r == _replace_all_ofs(v.l[i].m)
                            IN [exc |-> r.exc, v |-> Map(r.v)]
                       ELSE Raise({"AttributeError"})]
        elementwise(v) ==
            LET rs == each(v)
                bad == {i \in 1..Len(v.l) : rs[i].exc # {}}
            IN IF bad = {} THEN Return(List([i \in 1..Len(v.l) |-> rs[i].v]))
               ELSE Raise(rs[Min(bad)].exc)
        \* the body of the loop, lines 101-118, for one key
        entry == [k \in DOMAIN s |->
            LET v == s[k] IN
            IF HoldsAllOf(v)
            THEN IF IsSingletonList(v.m["allOf"])
                 THEN MergeSingleton(v.m)
                 ELSE Raise({"ValueError"})
            ELSE IF v.t = "m"
            THEN LET r == _replace_all_ofs(v.m)
                 IN [exc |-> r.exc, v |-> Map(r.v)]
            ELSE IF IsListOfDicts(v)
            THEN elementwise(v)
            ELSE Return(v)]
        raising == {k \in DOMAIN s : entry[k].exc # {}}
    IN IF raising = {}
       THEN Return([k \in DOMAIN s |-> entry[k].v])
       ELSE Raise(UNION {entry[k].exc : k \in raising})

(***************************************************************************)
(* dereference_refs, called on line 133 (langchain_core.utils.json_schema, *)
(* not part of this file): a dict that holds "$ref" is replaced by the     *)
(* dereferenced target of the reference, looked up from the root of the    *)
(* schema; the keys that lead to the targets ("definitions") are copied    *)
(* as they are.  The references of the model are "#/definitions/<name>".   *)
(***************************************************************************)
RefName == [r \in {"#/definitions/D", "#/definitions/E"} |->
               IF r = "#/definitions/D" THEN "D" ELSE "E"]

Resolves(ref, full) ==
    /\ ref.t = "s" /\ ref.s \in DOMAIN RefName
    /\ "definitions" \in DOMAIN full /\ full["definitions"].t = "m"
    /\ RefName[ref.s] \in DOMAIN full["definitions"].m

RECURSIVE HasRef(_)
HasRef(v) ==
    IF v.t = "m" THEN "$ref" \in DOMAIN v.m \/ \E k \in DOMAIN v.m : HasRef(v.m[k])
    ELSE IF v.t = "l" THEN \E i \in 1..Len(v.l) : HasRef(v.l[i])
    ELSE FALSE

\* a reference, outside the skipped keys, that has no target
RECURSIVE Dangling(_, _, _)
Dangling(v, full, skip) ==
    IF v.t = "m"
    THEN IF "$ref" \in DOMAIN v.m
         THEN \/ ~Resolves(v.m["$ref"], full)
              \/ Dangling(full["definitions"].m[RefName[v.m["$ref"].s]], full, skip)
         ELSE \E k \in DOMAIN v.m \ skip : Dangling(v.m[k], full, skip)
    ELSE IF v.t = "l" THEN \E i \in 1..Len(v.l) : Dangling(v.l[i], full, skip)
    ELSE FALSE

RECURSIVE Inline(_, _, _)
Inline(v, full, skip) ==
    IF v.t = "m"
    THEN IF "$ref" \in DOMAIN v.m
         THEN Inline(full["definitions"].m[RefName[v.m["$ref"].s]], full, skip)
         ELSE Map([k \in DOMAIN v.m |->
                      IF k \in skip THEN v.m[k] ELSE Inline(v.m[k], full, skip)])
    ELSE IF v.t = "l" THEN List([i \in 1..Len(v.l) |-> Inline(v.l[i], full, skip)])
    ELSE v

dereference_refs(s) ==
    LET skip == IF HasRef(Map(s)) THEN {"definitions"} ELSE {}
    IN IF Dangling(Map(s), s, skip) THEN Raise({"KeyError"})
       ELSE Return(Inline(Map(s), s, skip).m)

(***************************************************************************)
(* ParametersSchema, lines 78-94, as used on lines 136-138:                *)
(* ParametersSchema.parse_obj(schema).dict(exclude_unset=True).            *)
(***************************************************************************)
\* ExcludedFields with `definitions` not excluded
ExcludedFieldsTitleOnly == {"title"}

\* lines 88-89: the fields declared with Field(exclude=True)
ExcludedFields == {"title", "definitions"}

RECURSIVE ParametersSchema(_)
ParametersSchema(obj) ==
    LET \* a value of type ParametersSchema, lines 90-91: a dict is parsed, any
        \* other value goes through dict() first and is rejected if that fails
        nested(v) ==
            LET d == DictOf(v) IN
            IF d.exc # {} THEN Raise({"ValidationError"})
            ELSE LET r == ParametersSchema(d.v)
                 IN [exc |-> r.exc, v |-> Map(r.v)]
        field == [k \in DOMAIN obj |->
            LET v == obj[k] IN
            IF k = "title"               \* line 88, Optional[str]
            THEN IF v.t \in {"s", "n"} THEN Return(v) ELSE Raise({"ValidationError"})
            ELSE IF k = "items"          \* line 90, Optional[ParametersSchema]
            THEN nested(v)
            ELSE IF k = "properties"     \* line 91, Optional[Dict[str, ParametersSchema]]
            THEN LET d == DictOf(v) IN
                 IF d.exc # {} THEN Raise({"ValidationError"})
                 ELSE LET sub == [p \in DOMAIN d.v |-> nested(d.v[p])] IN
                      IF \E p \in DOMAIN d.v : sub[p].exc # {}
                      THEN Raise({"ValidationError"})
                      ELSE Return(Map([p \in DOMAIN d.v |-> sub[p].v]))
            ELSE Return(v)]              \* line 89 (Any) and line 94 (extra = "allow")
    IN IF \E k \in DOMAIN obj : field[k].exc # {}
       THEN Raise({"ValidationError"})
       ELSE \* exclude_unset: only the keys of obj; exclude: none of ExcludedFields
            Return([k \in DOMAIN obj \ ExcludedFields |-> field[k].v])

(***************************************************************************)
(* _get_parameters_from_schema, lines 122-138.  The result also carries    *)
(* the values of the local `schema` after lines 133 and 135.               *)
(***************************************************************************)
\* nothing returned, no local bound
NoParameters == [exc |-> {}, v |-> EmptyDict, deref |-> EmptyDict,
                 flat |-> EmptyDict, handed |-> FALSE]

\* lines 136-138, with d and f the values of lines 133 and 135
Filter(d, f, p) ==
    [exc |-> p.exc, v |-> p.v, deref |-> d.v, flat |-> f.v, handed |-> TRUE]

\* lines 135-138, with d the value of line 133
Flatten(d, f) ==
    IF f.exc # {} THEN [NoParameters EXCEPT !.exc = f.exc, !.deref = d.v]
    ELSE Filter(d, f, ParametersSchema(f.v))

\* lines 133-138
Dereference(d) ==
    IF d.exc # {} THEN [NoParameters EXCEPT !.exc = d.exc]
    ELSE Flatten(d, _replace_all_ofs(d.v))

\* lines 122-138
_get_parameters_from_schema(s) == Dereference(dereference_refs(s))

(***************************************************************************)
(* Tool inputs.  A tool input is a record: shape tells what isinstance     *)
(* finds ("tool" a BaseTool, "class" a BaseModel subclass, "dict" a dict,  *)
(* "other" anything else); name, description, has_schema and schema are    *)
(* tool.name, tool.description, bool(tool.args_schema) and                 *)
(* tool.args_schema.schema() of a BaseTool; schema is also                 *)
(* pydantic_model.schema() of a class; raw is the dict itself.             *)
(***************************************************************************)
ToolInput(shape, name, description, has_schema, sch, raw) ==
    [shape |-> shape, name |-> name, description |-> description,
     has_schema |-> has_schema, schema |-> sch, raw |-> raw]

FunctionDescription(name, description, parameters) ==
    [name |-> name, description |-> description, parameters |-> parameters]

NoFunction == FunctionDescription(Str(""), Str(""), EmptyDict)

\* d[k] for a key that may be missing
Item(d, k) == IF k \in DOMAIN d THEN Return(d[k]) ELSE Raise({"KeyError"})

\* a dict display {"name": n, "description": d, "parameters": p}: the three
\* values are computed in this order, and the first that raises ends the call
Describe(n, d, p) ==
    IF n.exc # {} THEN Raise(n.exc)
    ELSE IF d.exc # {} THEN Raise(d.exc)
    ELSE IF p.exc # {} THEN Raise(p.exc)
    ELSE [exc |-> {}, v |-> FunctionDescription(n.v, d.v, p.v)]

\* lines 19-28
_format_pydantic_to_vertex_function(pydantic_model) ==
    LET sch == pydantic_model.schema
    IN Describe(Item(sch, "title"),
                Return(Get(sch, "description", Str(""))),
                _get_parameters_from_schema(sch))

\* line 38: tool.description or schema["description"]
ToolDescription(tool, sch) ==
    IF tool.description # "" THEN Return(Str(tool.description))
    ELSE Item(sch, "description")

\* lines 45-51
FallbackParameters ==
    [properties |-> Map([__arg1 |-> Map([type |-> Str("string")])]),
     required |-> List(<<Str("__arg1")>>),
     type |-> Str("object")]

\* lines 31-52
_format_tool_to_vertex_function(tool) ==
    IF tool.has_schema
    THEN LET sch == tool.schema
         IN Describe(IF tool.name # "" THEN Return(Str(tool.name)) ELSE Item(sch, "title"),
                     ToolDescription(tool, sch),
                     _get_parameters_from_schema(sch))
    ELSE Describe(Return(Str(tool.name)), Return(Str(tool.description)),
                  Return(FallbackParameters))

\* lines 66-70; a `parameters` that is no dict fails on .items() in line 100
FormatDict(tool) ==
    LET p == Item(tool.raw, "parameters")
    IN Describe(Item(tool.raw, "name"),
                Item(tool.raw, "description"),
                IF p.exc # {} THEN Raise(p.exc)
                ELSE IF p.v.t # "m" THEN Raise({"AttributeError"})
                ELSE _get_parameters_from_schema(p.v.m))

\* lines 61-72: the isinstance chain
IsSupported(tool) == tool.shape \in {"tool", "class", "dict"}

FormatOne(tool) ==
    IF tool.shape = "tool" THEN _format_tool_to_vertex_function(tool)
    ELSE IF tool.shape = "class" THEN _format_pydantic_to_vertex_function(tool)
    ELSE IF tool.shape = "dict" THEN FormatDict(tool)
    ELSE [exc |-> {"ValueError"}, v |-> NoFunction]

\* FunctionDeclaration(**func) and VertexTool(function_declarations=...),
\* lines 73 and 75: the provider's constructors, taken to store their arguments
FunctionDeclaration(f) == [declared |-> f]

VertexTool(declarations) == [function_declarations |-> declarations]

\* lines 55-75.  The inputs are formatted in order, f[i] being the outcome for
\* the i-th; the first that raises ends the call.  funcs is
\* function_declarations when the call ends, about the input the ValueError
\* of line 72 names.
Collect(ts, f) ==
    LET bad == {i \in 1..Len(ts) : f[i].exc # {}}
        first == IF bad = {} THEN Len(ts) + 1 ELSE Min(bad)
        built == [i \in 1..(first - 1) |-> FunctionDeclaration(f[i].v)]
    IN IF first > Len(ts)
       THEN [exc |-> {}, funcs |-> built, v |-> <<VertexTool(built)>>, about |-> {}]
       ELSE [exc |-> f[first].exc, funcs |-> built, v |-> <<>>,
             about |-> IF IsSupported(ts[first]) THEN {} ELSE {ts[first]}]

_format_tools_to_vertex_tool(ts) == Collect(ts, [i \in 1..Len(ts) |-> FormatOne(ts[i])])

(***************************************************************************)
(* PydanticFunctionsOutputParser, lines 141-203.                           *)
(*                                                                         *)
(* A generation is [chat, message]: chat is isinstance(g, ChatGeneration), *)
(* message is [content, additional_kwargs].  The selector is [is_dict,     *)
(* type, mapping]: one model class, or a dict from names to model classes. *)
(***************************************************************************)
\* the model classes of the docstring, lines 168-173
ModelFields == [Cookie |-> [name |-> "str", age |-> "int"],
                Dog |-> [species |-> "str"]]

NoInstance == [cls |-> "", fields |-> EmptyDict]

\* Truthy as `is not None` would have it
TruthyUnlessNone(v) == TRUE

\* bool(v)
Truthy(v) ==
    IF v.t = "m" THEN DOMAIN v.m # {}
    ELSE IF v.t = "l" THEN v.l # <<>>
    ELSE IF v.t = "s" THEN v.s # ""
    ELSE v.s # "0"

\* json.loads on the texts of the model: the documents they encode, and
\* JSONDecodeError for a text that is no JSON
JsonDocument ==
    [j \in {"{\"name\": \"value\", \"age\": 10}", "{\"species\": \"cat\"}", "{}", "[1]"} |->
        IF j = "{\"name\": \"value\", \"age\": 10}"
        THEN Map([name |-> Str("value"), age |-> Num("10")])
        ELSE IF j = "{\"species\": \"cat\"}" THEN Map([species |-> Str("cat")])
        ELSE IF j = "{}" THEN Map(EmptyDict)
        ELSE List(<<Num("1")>>)]

json_loads(v) ==
    IF v.t # "s" THEN Raise({"TypeError"})
    ELSE IF v.s \in DOMAIN JsonDocument THEN Return(JsonDocument[v.s])
    ELSE Raise({"JSONDecodeError"})

\* pydantic's validation of one field: a str field takes a string and turns a
\* number into its text, an int field takes a number (no string of the model
\* is the text of a number)
Validate(type, v) ==
    IF type = "str" /\ v.t \in {"s", "n"} THEN Return(Str(v.s))
    ELSE IF type = "int" /\ v.t = "n" THEN Return(v)
    ELSE Raise({"ValidationError"})

\* schema(**document), line 198
Construct(cls, document) ==
    IF document.t # "m" THEN Raise({"TypeError"})
    ELSE LET fields == ModelFields[cls]
             checked == [f \in DOMAIN fields |->
                            IF f \in DOMAIN document.m
                            THEN Validate(fields[f], document.m[f])
                            ELSE Raise({"ValidationError"})]
         IN IF \E f \in DOMAIN fields : checked[f].exc # {}
            THEN Raise({"ValidationError"})
            ELSE [exc |-> {},
                  v |-> [cls |-> cls, fields |-> [f \in DOMAIN fields |-> checked[f].v]]]

\* IsChatGeneration with the check left out
IsAnyGeneration(g) == TRUE

\* line 187
IsChatGeneration(g) == g.chat

\* line 190: message.additional_kwargs.get("function_call", {})
FunctionCallOf(message) == Get(message.additional_kwargs, "function_call", Map(EmptyDict))

\* Resolve with a lookup that falls back to a default class
ResolveWithDefault(sel, function_name) ==
    IF sel.is_dict
    THEN IF function_name.t \in {"m", "l"} THEN Raise({"TypeError"})
         ELSE IF function_name.t = "s" /\ function_name.s \in DOMAIN sel.mapping
         THEN Return(sel.mapping[function_name.s])
         ELSE Return("Cookie")
    ELSE Return(sel.type)

\* lines 194-197
Resolve(sel, function_name) ==
    IF sel.is_dict
    THEN IF function_name.t \in {"m", "l"} THEN Raise({"TypeError"})
         ELSE IF function_name.t = "s" /\ function_name.s \in DOMAIN sel.mapping
         THEN Return(sel.mapping[function_name.s])
         ELSE Raise({"KeyError"})
    ELSE Return(sel.type)

\* lines 184-200
parse_result(res, sel) ==
    LET none == [exc |-> {}, v |-> NoInstance, resolved |-> "", about |-> {}]
    IN IF res = <<>> THEN [none EXCEPT !.exc = {"IndexError"}]
       ELSE IF ~IsChatGeneration(res[1]) THEN [none EXCEPT !.exc = {"ValueError"}]
       ELSE LET message == res[1].message
                function_call == FunctionCallOf(message)
            IN IF Truthy(function_call)
               THEN LET function_name == IF function_call.t = "m"
                                         THEN Item(function_call.m, "name")
                                         ELSE Raise({"TypeError"})
                        tool_input == Get(function_call.m, "arguments", Map(EmptyDict))
                        cls == Resolve(sel, function_name.v)
                        document == json_loads(tool_input)
                        instance == Construct(cls.v, document.v)
                    IN IF function_name.exc # {} THEN [none EXCEPT !.exc = function_name.exc]
                       ELSE IF cls.exc # {} THEN [none EXCEPT !.exc = cls.exc]
                       ELSE IF document.exc # {}
                       THEN [none EXCEPT !.exc = document.exc, !.resolved = cls.v]
                       ELSE [exc |-> instance.exc,
                             v |-> IF instance.exc = {} THEN instance.v ELSE NoInstance,
                             resolved |-> cls.v, about |-> {}]
               ELSE [none EXCEPT !.exc = {"OutputParserException"}, !.about = {message}]

\* lines 202-203
parse(t) == [exc |-> {"ValueError"}, v |-> NoInstance]

(***************************************************************************)
(* The schemas the calls are made on.                                      *)
(***************************************************************************)
\* the longest list that is enumerated (an allOf of MaxListLen members)
MaxListLen == 2

ListsOver(S) == UNION {[1..n -> S] : n \in 0..MaxListLen}

NonEmptyListsOver(S) == ListsOver(S) \ {<<>>}

LeafValue == [type |-> Str("string"), title |-> Str("T2"), description |-> Str("d2")]

\* schemas without nesting: every subset of type / title / description
LeafSchemas == {Map([k \in ks |-> LeafValue[k]]) : ks \in SUBSET DOMAIN LeafValue}

Scalars == {Str("string"), Num("1")}

ListElements == {Str("string"), Map(EmptyDict), Map([type |-> Str("string")]),
                 Map(LeafValue)}

\* values of nesting depth at most 1: scalars, flat schemas, lists of them
Values1 == Scalars \cup LeafSchemas \cup {List(q) : q \in ListsOver(ListElements)}

InnerKeys == {"allOf", "x", "title", "description", "items", "properties"}

\* one-key dicts over Values1
Dicts1 == {Map([j \in {k} |-> v]) : k \in InnerKeys, v \in Values1}

\* a dict with a singleton allOf next to its own title and / or description
Holders ==
    {Map([k \in {"allOf"} \cup ks |->
             IF k = "allOf" THEN List(<<m>>)
             ELSE IF k = "title" THEN Str("T") ELSE Str("d1")]) :
        m \in LeafSchemas, ks \in SUBSET {"title", "description"}}

\* lists whose members are dicts that hold an allOf themselves
AllOfMembers == {Map([allOf |-> List(<<Map([type |-> Str("string")])>>)]),
                 Map([allOf |-> List(<<>>)]),
                 Map([type |-> Str("string")])}

ListsOfDicts == {List(q) : q \in NonEmptyListsOver(AllOfMembers)}

Values2 == Values1 \cup Dicts1 \cup Holders \cup ListsOfDicts

TopKeys == {"allOf", "x", "items", "properties", "definitions"}

\* one-key schemas over Values2
Schemas1 == {[j \in {k} |-> v] : k \in TopKeys, v \in Values2}

\* the schema of the documentation's example
ExampleIn ==
    [x |-> Map([allOf |-> List(<<Map([type |-> Str("string"), description |-> Str("d2")])>>),
                title |-> Str("T"), description |-> Str("d1")])]

ExampleOut ==
    [x |-> Map([type |-> Str("string"), title |-> Str("T"), description |-> Str("d1 d2")])]

\* the holders one level further down, as pydantic emits them for the fields of
\* a model; the holders in a dict that is a member of a list; and a singleton
\* allOf whose member holds an allOf again
Schemas2 ==
    {[properties |-> Map([p |-> h]), type |-> Str("object")] : h \in Holders}
    \cup {[x |-> List(<<Map([y |-> h])>>)] : h \in Holders}
    \cup {[x |-> Map([allOf |-> List(<<Map([p |-> h])>>)])] :
             h \in Holders \cup {Map([allOf |-> List(q)]) :
                                    q \in ListsOver({Map(EmptyDict)})}}

\* the keys the filter knows, on up to three levels
FilterValue == [title |-> Str("T"), type |-> Str("object"),
                definitions |-> Map([D |-> Map([type |-> Str("string")])])]

FilterLeaves == {[k \in ks |-> FilterValue[k]] : ks \in SUBSET DOMAIN FilterValue}

PropertyDicts ==
    {EmptyDict} \cup {[j \in {p} |-> Map(f)] : p \in {"p", "title"}, f \in FilterLeaves}

Filtered1 ==
    {f : f \in FilterLeaves}
    \cup {Put(f, "items", Map(i)) : f \in FilterLeaves, i \in FilterLeaves}
    \cup {Put(f, "properties", Map(ps)) : f \in FilterLeaves, ps \in PropertyDicts}
    \cup {Put(Put(f, "items", Map(i)), "properties", Map(ps)) :
             f \in {FilterValue}, i \in FilterLeaves, ps \in PropertyDicts}

Filtered2 ==
    {[items |-> Map(f)] : f \in Filtered1}
    \cup {[title |-> Str("T"), properties |-> Map([p |-> Map(f)])] : f \in Filtered1}

\* schemas as pydantic emits them for a model with a field of a model type:
\* the field refers to the definition from inside a singleton allOf
Ref(r) == Map("$ref" :> Str(r))

Inner == [title |-> Str("Inner"), type |-> Str("object"),
          properties |-> Map([a |-> Map([title |-> Str("A"), type |-> Str("string")])])]

Middle == [title |-> Str("Middle"), type |-> Str("object"), description |-> Str("dm"),
           properties |-> Map([i |-> Map([title |-> Str("I"), description |-> Str("di"),
                                         allOf |-> List(<<Ref("#/definitions/E")>>)])])]

RefField(ref) == Map([title |-> Str("F"), description |-> Str("df"),
                      allOf |-> List(<<Ref(ref)>>)])

WithRefs ==
    {[title |-> Str("Outer"), type |-> Str("object"),
      properties |-> Map([f |-> RefField("#/definitions/E")]),
      definitions |-> Map([E |-> Map(Inner)])],
     [title |-> Str("Outer"), type |-> Str("object"),
      properties |-> Map([f |-> RefField("#/definitions/D")]),
      definitions |-> Map([D |-> Map(Middle), E |-> Map(Inner)])],
     [title |-> Str("Outer"), type |-> Str("object"),
      properties |-> Map([f |-> Ref("#/definitions/E")]),
      definitions |-> Map([E |-> Map(Inner)])],
     [title |-> Str("Outer"), type |-> Str("object"),
      properties |-> Map([f |-> RefField("#/definitions/D")]),
      definitions |-> Map([E |-> Map(Inner)])]}

Schemas == Schemas1 \cup Schemas2 \cup {ExampleIn} \cup Filtered1 \cup Filtered2 \cup WithRefs

(***************************************************************************)
(* The tool inputs the builders are called on.                             *)
(***************************************************************************)
\* the longest list of tool inputs
MaxTools == 2

Plain == [title |-> Str("Args"), type |-> Str("object"),
          properties |-> Map([q |-> Map([title |-> Str("Q"), type |-> Str("string")])])]

Outer == [title |-> Str("Outer"), type |-> Str("object"),
          properties |-> Map([f |-> RefField("#/definitions/E")]),
          definitions |-> Map([E |-> Map(Inner)])]

\* what .schema() of a model class gives: a title always, a description if
\* the class has a docstring
ModelSchemas == {Plain, Put(Plain, "description", Str("ds")), Outer}

BaseTools ==
    {ToolInput("tool", n, d, FALSE, EmptyDict, EmptyDict) : n \in {"", "t"}, d \in {"", "dt"}}
    \cup {ToolInput("tool", n, d, TRUE, sch, EmptyDict) :
             n \in {"", "t"}, d \in {"", "dt"}, sch \in ModelSchemas}

ModelClasses == {ToolInput("class", "", "", FALSE, sch, EmptyDict) : sch \in ModelSchemas}

ExampleDict == [name |-> Str("n"), description |-> Str("d"),
                parameters |-> Map([title |-> Str("T"), type |-> Str("object"),
                                    properties |-> Map(EmptyDict)])]

Dicts ==
    {ToolInput("dict", "", "", FALSE, EmptyDict, raw) :
        raw \in {ExampleDict,
                 [name |-> Str("o"), description |-> Str("do"), parameters |-> Map(Outer)]}}

Others == {ToolInput("other", "oops", "", FALSE, EmptyDict, EmptyDict),
           ToolInput("other", "7", "", FALSE, EmptyDict, EmptyDict)}

ToolInputs == BaseTools \cup ModelClasses \cup Dicts \cup Others

ToolLists == UNION {[1..n -> ToolInputs] : n \in 0..MaxTools}

(***************************************************************************)
(* The results and selectors the parser is called on.                      *)
(***************************************************************************)
\* the most generations that follow the first in a result
MaxFollowing == 2

FunctionNames == {"cookie", "dog", "cat"}

ArgumentTexts == {"{\"name\": \"value\", \"age\": 10}", "{\"species\": \"cat\"}",
                  "[1]", "oops"}

FunctionCalls ==
    {Map(EmptyDict), Map([name |-> Str("cookie")]),
     Map([arguments |-> Str("{\"species\": \"cat\"}")])}
    \cup {Map([name |-> Str(n), arguments |-> Str(a)]) : n \in FunctionNames, a \in ArgumentTexts}

Messages ==
    {[content |-> "hi", additional_kwargs |-> EmptyDict]}
    \cup {[content |-> "hi", additional_kwargs |-> [function_call |-> fc]] : fc \in FunctionCalls}

Generations == {[chat |-> c, message |-> m] : c \in BOOLEAN, m \in Messages}

Following ==
    {[chat |-> c, message |-> [content |-> "later", additional_kwargs |-> kw]] :
        c \in BOOLEAN,
        kw \in {EmptyDict,
                [function_call |-> Map([name |-> Str("dog"),
                                        arguments |-> Str("{\"species\": \"cat\"}")])]}}

Results ==
    {<<>>} \cup {<<g>> \o tail : g \in Generations,
                                 tail \in UNION {[1..n -> Following] : n \in 0..MaxFollowing}}

Selector(is_dict, type, mapping) == [is_dict |-> is_dict, type |-> type, mapping |-> mapping]

Selectors ==
    {Selector(FALSE, "Cookie", EmptyDict), Selector(FALSE, "Dog", EmptyDict),
     Selector(TRUE, "", [cookie |-> "Cookie", dog |-> "Dog"]),
     Selector(TRUE, "", [cookie |-> "Dog"]),
     Selector(TRUE, "", EmptyDict)}

(***************************************************************************)
(* The calls.  Init draws the function called and its arguments; the one   *)
(* action of a function runs its whole body.                               *)
(***************************************************************************)
NoSchemaArguments ==
    /\ schema = EmptyDict /\ deref = EmptyDict /\ flat = EmptyDict
    /\ handed = FALSE /\ out = EmptyDict

NoToolArguments == tools = <<>> /\ funcs = <<>> /\ bundle = <<>>

NoParserArguments ==
    /\ result = <<>> /\ selector = Selector(FALSE, "Cookie", EmptyDict)
    /\ resolved = "" /\ ret = NoInstance /\ text = ""

InitSchemaCall ==
    /\ op \in {"_replace_all_ofs", "_get_parameters_from_schema"}
    /\ schema \in Schemas
    /\ deref = EmptyDict /\ flat = EmptyDict /\ handed = FALSE /\ out = EmptyDict
    /\ NoToolArguments /\ NoParserArguments

InitBuilderCall ==
    /\ \/ op = "_format_pydantic_to_vertex_function" /\ \E t \in ModelClasses : tools = <<t>>
       \/ op = "_format_tool_to_vertex_function" /\ \E t \in BaseTools : tools = <<t>>
       \/ op = "_format_tools_to_vertex_tool" /\ tools \in ToolLists
    /\ funcs = <<>> /\ bundle = <<>>
    /\ NoSchemaArguments /\ NoParserArguments

InitParserCall ==
    /\ \/ /\ op = "parse_result"
          /\ result \in Results /\ selector \in Selectors /\ text = ""
       \/ /\ op = "parse"
          /\ result = <<>> /\ selector \in Selectors /\ text \in {"", "hi"}
    /\ resolved = "" /\ ret = NoInstance
    /\ NoSchemaArguments /\ NoToolArguments

Init ==
    /\ pc = "call"
    /\ exc = {}
    /\ excAbout = {}
    /\ (InitSchemaCall \/ InitBuilderCall \/ InitParserCall)

ReplaceAllOfsCall ==
    /\ pc = "call" /\ op = "_replace_all_ofs"
    /\ LET r == _replace_all_ofs(schema)
       IN /\ exc' = r.exc
          /\ out' = r.v
    /\ pc' = "done"
    /\ UNCHANGED <<op, schema, deref, flat, handed, tools, funcs, bundle,
                   result, selector, resolved, ret, text, excAbout>>

GetParametersFromSchemaCall ==
    /\ pc = "call" /\ op = "_get_parameters_from_schema"
    /\ LET r == _get_parameters_from_schema(schema)
       IN /\ exc' = r.exc
          /\ out' = r.v
          /\ deref' = r.deref
          /\ flat' = r.flat
          /\ handed' = r.handed
    /\ pc' = "done"
    /\ UNCHANGED <<op, schema, tools, funcs, bundle,
                   result, selector, resolved, ret, text, excAbout>>

FormatPydanticCall ==
    /\ pc = "call" /\ op = "_format_pydantic_to_vertex_function"
    /\ LET r == _format_pydantic_to_vertex_function(tools[1])
       IN /\ exc' = r.exc
          /\ funcs' = IF r.exc = {} THEN <<r.v>> ELSE <<>>
    /\ pc' = "done"
    /\ UNCHANGED <<op, schema, deref, flat, handed, out, tools, bundle,
                   result, selector, resolved, ret, text, excAbout>>

FormatToolCall ==
    /\ pc = "call" /\ op = "_format_tool_to_vertex_function"
    /\ LET r == _format_tool_to_vertex_function(tools[1])
       IN /\ exc' = r.exc
          /\ funcs' = IF r.exc = {} THEN <<r.v>> ELSE <<>>
    /\ pc' = "done"
    /\ UNCHANGED <<op, schema, deref, flat, handed, out, tools, bundle,
                   result, selector, resolved, ret, text, excAbout>>

FormatToolsCall ==
    /\ pc = "call" /\ op = "_format_tools_to_vertex_tool"
    /\ LET r == _format_tools_to_vertex_tool(tools)
       IN /\ exc' = r.exc
          /\ funcs' = r.funcs
          /\ bundle' = r.v
          /\ excAbout' = r.about
    /\ pc' = "done"
    /\ UNCHANGED <<op, schema, deref, flat, handed, out, tools,
                   result, selector, resolved, ret, text>>

ParseResultCall ==
    /\ pc = "call" /\ op = "parse_result"
    /\ LET r == parse_result(result, selector)
       IN /\ exc' = r.exc
          /\ ret' = r.v
          /\ resolved' = r.resolved
          /\ excAbout' = r.about
    /\ pc' = "done"
    /\ UNCHANGED <<op, schema, deref, flat, handed, out, tools, funcs, bundle,
                   result, selector, text>>

ParseCall ==
    /\ pc = "call" /\ op = "parse"
    /\ LET r == parse(text)
       IN /\ exc' = r.exc
          /\ ret' = r.v
    /\ pc' = "done"
    /\ UNCHANGED <<op, schema, deref, flat, handed, out, tools, funcs, bundle,
                   result, selector, resolved, text, excAbout>>

Next ==
    \/ ReplaceAllOfsCall
    \/ GetParametersFromSchemaCall
    \/ FormatPydanticCall
    \/ FormatToolCall
    \/ FormatToolsCall
    \/ ParseResultCall
    \/ ParseCall

Spec == Init /\ [][Next]_vars

(***************************************************************************)
(* Properties of the allOf-flattener.                                      *)
(***************************************************************************)
Flattened == pc = "done" /\ op = "_replace_all_ofs"

RECURSIVE HasAllOf(_)
HasAllOf(v) ==
    IF v.t = "m" THEN "allOf" \in DOMAIN v.m \/ \E k \in DOMAIN v.m : HasAllOf(v.m[k])
    ELSE IF v.t = "l" THEN \E i \in 1..Len(v.l) : HasAllOf(v.l[i])
    ELSE FALSE

\* some dict, at any depth, whose allOf is a list of a length in lens
RECURSIVE HasAllOfOfLength(_, _)
HasAllOfOfLength(v, lens) ==
    IF v.t = "m"
    THEN \/ "allOf" \in DOMAIN v.m /\ v.m["allOf"].t = "l" /\ Len(v.m["allOf"].l) \in lens
         \/ \E k \in DOMAIN v.m : HasAllOfOfLength(v.m[k], lens)
    ELSE IF v.t = "l" THEN \E i \in 1..Len(v.l) : HasAllOfOfLength(v.l[i], lens)
    ELSE FALSE

NotOne == (0..(MaxListLen + 1)) \ {1}

\* C1: whenever the flattener returns, its result holds no allOf key at any
\* depth: not at the top, not in a nested dict, not in a dict that is a member
\* of a list.
C1_NoAllOfLeft == (Flattened /\ exc = {}) => ~HasAllOf(Map(out))

\* C2: the flattener fails on every schema that holds, at any depth, a dict
\* whose allOf is an empty list or a list of two or more schemas, and so
\* _get_parameters_from_schema never hands the filter a schema with an allOf
\* of several members.
C2_FailsOnEveryMalformedAllOf ==
    /\ (Flattened /\ HasAllOfOfLength(Map(schema), NotOne)) => "ValueError" \in exc
    /\ handed => ~HasAllOfOfLength(Map(flat), NotOne \ {0})

\* the dicts the claim C3 is about: a singleton allOf of a schema, with
\* descriptions that are strings
IsHolder(v) ==
    /\ v.t = "m" /\ "allOf" \in DOMAIN v.m
    /\ v.m["allOf"].t = "l" /\ Len(v.m["allOf"].l) = 1
    /\ v.m["allOf"].l[1].t = "m"
    /\ "description" \in DOMAIN v.m => v.m["description"].t = "s"
    /\ "description" \in DOMAIN v.m["allOf"].l[1].m
          => v.m["allOf"].l[1].m["description"].t = "s"

DescriptionOf(d) == IF "description" \in DOMAIN d THEN d["description"].s ELSE ""

\* what C3 says the output is for a holder v with the member m
Merged(v, m) ==
    Map([k \in DOMAIN m \cup {"title", "description"} |->
            IF k = "title"
            THEN IF "title" \in DOMAIN v THEN v["title"]
                 ELSE IF "title" \in DOMAIN m THEN m["title"] ELSE Str("")
            ELSE IF k = "description"
            THEN Str(DescriptionOf(v) \o " " \o DescriptionOf(m))
            ELSE m[k]])

\* o is the output for the traversed dict d, and every holder that is the
\* value of a key of a traversed dict has been merged as C3 says
RECURSIVE MergedEverywhere(_, _)
MergedEverywhere(d, o) ==
    /\ DOMAIN o = DOMAIN d
    /\ \A k \in DOMAIN d :
         LET v == d[k] IN
         IF IsHolder(v) THEN o[k] = Merged(v.m, v.m["allOf"].l[1].m)
         ELSE IF v.t = "m" /\ "allOf" \notin DOMAIN v.m
         THEN o[k].t = "m" /\ MergedEverywhere(v.m, o[k].m)
         ELSE IF v.t = "l" /\ v.l # <<>> /\ v.l[1].t = "m"
         THEN /\ o[k].t = "l" /\ Len(o[k].l) = Len(v.l)
              /\ \A i \in 1..Len(v.l) :
                    v.l[i].t = "m" => /\ o[k].l[i].t = "m"
                                      /\ MergedEverywhere(v.l[i].m, o[k].l[i].m)
         ELSE TRUE

\* C3: at every key of a traversed dict whose value v is a dict with an allOf
\* of exactly one schema m, the output is m's contents with title = v's title,
\* else m's title, else "", and description = v's description (or "") + " " +
\* m's description (or ""); the documented example flattens as documented.
C3_SingletonMerged ==
    /\ (Flattened /\ exc = {}) => MergedEverywhere(schema, out)
    /\ (Flattened /\ schema = ExampleIn) => (exc = {} /\ out = ExampleOut)

C3_Witness ==
    /\ Flattened /\ exc = {}
    /\ "properties" \in DOMAIN schema /\ "p" \in DOMAIN schema["properties"].m
    /\ IsHolder(schema["properties"].m["p"])
    /\ "title" \notin DOMAIN schema["properties"].m["p"].m
    /\ out["properties"].m["p"].m["title"] = Str("T2")
    /\ out["properties"].m["p"].m["description"] = Str("d1 d2")

\* the schemas C5 is about: values are scalars, schemas, lists of scalars or
\* lists of schemas
RECURSIVE IsSchemaValue(_)
IsSchemaValue(v) ==
    IF v.t = "m" THEN \A k \in DOMAIN v.m : IsSchemaValue(v.m[k])
    ELSE IF v.t = "l"
    THEN \/ \A i \in 1..Len(v.l) : v.l[i].t \in {"s", "n"}
         \/ \A i \in 1..Len(v.l) : v.l[i].t = "m" /\ IsSchemaValue(v.l[i])
    ELSE TRUE

\* C5: on a schema without any allOf key the flattener returns its input:
\* same keys, same values, lists in the same order, at every level.
C5_IdentityWithoutAllOf ==
    (Flattened /\ IsSchemaValue(Map(schema)) /\ ~HasAllOf(Map(schema)))
        => (exc = {} /\ out = schema)

C5_Witness ==
    /\ Flattened /\ ~HasAllOf(Map(schema))
    /\ "x" \in DOMAIN schema /\ schema["x"].t = "l" /\ Len(schema["x"].l) = 2
    /\ schema["x"].l[1].t = "m" /\ schema["x"].l[2] = Map([type |-> Str("string")])
    /\ exc = {} /\ out = schema

(***************************************************************************)
(* Properties of the parameter filter.                                     *)
(***************************************************************************)
GotParameters == pc = "done" /\ op = "_get_parameters_from_schema"

\* the schemas the filter is meant for: a title is a scalar, items is a
\* schema, properties is a dict of schemas, at every level the filter reaches
RECURSIVE IsFilterable(_)
IsFilterable(d) ==
    /\ "title" \in DOMAIN d => d["title"].t \in {"s", "n"}
    /\ "items" \in DOMAIN d => d["items"].t = "m" /\ IsFilterable(d["items"].m)
    /\ "properties" \in DOMAIN d =>
          /\ d["properties"].t = "m"
          /\ \A p \in DOMAIN d["properties"].m :
                /\ d["properties"].m[p].t = "m"
                /\ IsFilterable(d["properties"].m[p].m)

\* o is d without title and definitions, at the top and in every schema under
\* items and under the values of properties; everything else is as in d
RECURSIVE Stripped(_, _)
Stripped(d, o) ==
    /\ DOMAIN o = DOMAIN d \ {"title", "definitions"}
    /\ \A k \in DOMAIN o :
         IF k = "items" THEN o[k].t = "m" /\ Stripped(d[k].m, o[k].m)
         ELSE IF k = "properties"
         THEN /\ o[k].t = "m" /\ DOMAIN o[k].m = DOMAIN d[k].m
              /\ \A p \in DOMAIN d[k].m :
                    o[k].m[p].t = "m" /\ Stripped(d[k].m[p].m, o[k].m[p].m)
         ELSE o[k] = d[k]

Bundled == pc = "done" /\ op = "_format_tools_to_vertex_tool"

HasSupportedShape(t) == t.shape \in {"tool", "class", "dict"}

\* the name the description of a supported input is to carry
NameFor(t) ==
    IF t.shape = "dict" THEN t.raw["name"]
    ELSE IF t.shape = "tool" /\ (t.name # "" \/ ~t.has_schema) THEN Str(t.name)
    ELSE t.schema["title"]

\* C6: for every list of inputs, either every input is a tool, a model class
\* or a dict and the call returns exactly one bundle with one declaration per
\* input, in the order of the inputs; or some input is of another shape and
\* the call raises a ValueError that names it and returns no bundle.
C6_OneBundleOrValueError ==
    Bundled =>
        IF \A i \in 1..Len(tools) : HasSupportedShape(tools[i])
        THEN /\ exc = {}
             /\ Len(bundle) = 1
             /\ Len(bundle[1].function_declarations) = Len(tools)
             /\ \A i \in 1..Len(tools) :
                   bundle[1].function_declarations[i].declared.name = NameFor(tools[i])
        ELSE /\ exc = {"ValueError"}
             /\ bundle = <<>>
             /\ \E i \in 1..Len(tools) :
                   ~HasSupportedShape(tools[i]) /\ excAbout = {tools[i]}

Described == pc = "done" /\ op = "_format_tool_to_vertex_function"

\* C10: for a tool with an argument schema the description returned has the
\* tool's name if it is non-empty, else the schema's title; the tool's
\* description if it is non-empty, else the schema's description, else "";
\* and the dereferenced, flattened and filtered schema as parameters.  For a
\* tool without an argument schema the parameters are the one-string fallback.
C10_ToolDescription ==
    Described =>
        LET t == tools[1] IN
        IF t.has_schema
        THEN /\ exc = {}
             /\ funcs[1].name = IF t.name # "" THEN Str(t.name) ELSE t.schema["title"]
             /\ funcs[1].description =
                   IF t.description # "" THEN Str(t.description)
                   ELSE IF "description" \in DOMAIN t.schema THEN t.schema["description"]
                   ELSE Str("")
             /\ funcs[1].parameters = _get_parameters_from_schema(t.schema).v
        ELSE /\ exc = {}
             /\ funcs[1].parameters =
                   [properties |-> Map([__arg1 |-> Map([type |-> Str("string")])]),
                    required |-> List(<<Str("__arg1")>>),
                    type |-> Str("object")]

(***************************************************************************)
(* Properties of the result parser.                                        *)
(***************************************************************************)
Parsed == pc = "done" /\ op = "parse_result" /\ result # <<>>

FirstKwargs == result[1].message.additional_kwargs

\* the first result is a chat generation that carries a name and arguments
HasPayload ==
    /\ result[1].chat
    /\ "function_call" \in DOMAIN FirstKwargs
    /\ FirstKwargs["function_call"].t = "m"
    /\ {"name", "arguments"} \subseteq DOMAIN FirstKwargs["function_call"].m

CookieText == "{\"name\": \"value\", \"age\": 10}"

DogText == "{\"species\": \"cat\"}"

\* the instances of class cls that the arguments text a encodes
Encoded(cls, a) ==
    IF cls = "Cookie" /\ a = CookieText
    THEN {[cls |-> "Cookie", fields |-> [name |-> Str("value"), age |-> Num("10")]]}
    ELSE IF cls = "Dog" /\ a = DogText
    THEN {[cls |-> "Dog", fields |-> [species |-> Str("cat")]]}
    ELSE {}

\* C7: on a chat generation with a payload, the class is the selector itself
\* if it is one class, whatever the name, and mapping[name] if it is a
\* mapping; the result is the instance of that class the arguments encode;
\* a name that is no key of the mapping is a KeyError and nothing is returned.
C7_ResolvesAndBuilds ==
    (Parsed /\ HasPayload) =>
        LET name == FirstKwargs["function_call"].m["name"].s
            args == FirstKwargs["function_call"].m["arguments"].s
        IN IF selector.is_dict /\ name \notin DOMAIN selector.mapping
           THEN exc = {"KeyError"} /\ ret = NoInstance /\ resolved = ""
           ELSE LET cls == IF selector.is_dict THEN selector.mapping[name]
                           ELSE selector.type
                IN /\ resolved = cls
                   /\ IF Encoded(cls, args) # {}
                      THEN exc = {} /\ ret \in Encoded(cls, args)
                      ELSE exc # {} /\ ret = NoInstance

C7_Witness ==
    /\ Parsed /\ HasPayload
    /\ selector.is_dict /\ selector.mapping = [cookie |-> "Dog"]
    /\ FirstKwargs["function_call"].m["name"] = Str("cookie")
    /\ exc = {} /\ ret.cls = "Dog" /\ ret.fields = [species |-> Str("cat")]

\* C8: whenever the first result is no chat generation the call raises
\* ValueError, whatever the payload, the selector and the later results; no
\* class is resolved and no message is embedded, and the outcome of every
\* call is the outcome of the call on the first result alone.
C8_NonChatIsValueError ==
    /\ (Parsed /\ ~result[1].chat) =>
          (exc = {"ValueError"} /\ ret = NoInstance /\ resolved = "" /\ excAbout = {})
    /\ Parsed =>
          LET alone == parse_result(<<result[1]>>, selector)
          IN exc = alone.exc /\ ret = alone.v /\ resolved = alone.resolved
             /\ excAbout = alone.about

C8_Witness ==
    /\ Parsed /\ ~result[1].chat
    /\ Len(result) = 3 /\ result[2].chat /\ result[3].chat
    /\ "function_call" \in DOMAIN FirstKwargs
    /\ FirstKwargs["function_call"] = Map([name |-> Str("cat"), arguments |-> Str("oops")])
    /\ selector.is_dict /\ selector.mapping = EmptyDict
    /\ exc = {"ValueError"}

\* C9: on a chat generation whose message has no function_call entry, or an
\* empty one, the call raises OutputParserException with the whole message
\* in its text, for every selector, and no class is resolved or constructed.
C9_NoPayloadIsParserException ==
    (/\ Parsed /\ result[1].chat
     /\ \/ "function_call" \notin DOMAIN FirstKwargs
        \/ FirstKwargs["function_call"] = Map(EmptyDict))
        => /\ exc = {"OutputParserException"}
           /\ excAbout = {result[1].message}
           /\ resolved = "" /\ ret = NoInstance

C9_Witness ==
    /\ Parsed /\ result[1].chat
    /\ "function_call" \in DOMAIN FirstKwargs
    /\ FirstKwargs["function_call"] = Map(EmptyDict)
    /\ selector.is_dict
    /\ exc = {"OutputParserException"} /\ excAbout = {result[1].message}
====
